---- MODULE Spec2Model ----
(***************************************************************************)
(* Model of the concurrent scan engine of scanner.go: Scanner.Scan with    *)
(* its worker pool, feeder, completion barrier and collector, and the      *)
(* connectivity probe isPortOpen.                                          *)
(*                                                                         *)
(* Every goroutine of Scan is a process of the model; a channel is a       *)
(* sequence with a capacity and a closed flag; the context is the value    *)
(* of s.ctx.Err().  The target host is a fixed set of listening ports.     *)
(* The workers run the same code and are told apart by nothing but their   *)
(* position, so the pool is the bag of the positions of its running        *)
(* workers.                                                                *)
(*                                                                         *)
(* The helpers isPortOpen and grabBanner are also called outside a scan    *)
(* (the banner command); CallSpec applies them to every input of a bounded *)
(* set and keeps the last call in the variable call.                       *)
(***************************************************************************)
EXTENDS Integers, Sequences, FiniteSets, Bags, TLC

\* ---------------------------------------------------------------- bounds
\* Largest port number of the modelled port space (65535 in the program).
MaxPort == 2
\* Largest value of Scanner.threads the model starts from.
MaxThreads == 2
\* Depth of the two buffered channels: the 1000 of scanner.go:114-115,
\* scaled to the modelled port space so that full queues occur.
QueueDepth == 1
\* Longest banner kept before truncation: the 100 of grabBanner, scaled to
\* the modelled responses.
BannerLimit == 2
\* Size of grabBanner's read buffer: the 1024 of grabBanner, scaled likewise.
BufSize == 6
\* Requests the web server receives; net/http serves each in a goroutine of
\* its own
MaxHandlers == 2
\* Hosts of the address range given to the range command
MaxHosts == 2

Ports == 1..MaxPort

\* Values of s.ctx.Err(): nil until the context is cancelled, then the cause.
CtxErrs == {"nil", "Canceled", "DeadlineExceeded"}

VARIABLES
    startPort, endPort, threads, showProgress, \* Scanner fields (the configuration)
    listeners,      \* ports on which the target accepts connections
    ctxErr,         \* s.ctx.Err()
    ports,          \* work queue (buffered channel)
    portsClosed,    \* close(ports) has run
    results,        \* results queue (buffered channel)
    resultsClosed,  \* close(results) has run
    done,           \* close(done) has run
    wg,             \* sync.WaitGroup counter
    spawned,        \* the loop counter i of line 128: workers started so far
    workers,        \* bag of the running workers' positions: [pc, port, live]
    feeder,         \* feeder goroutine: [pc, port]
    barrier,        \* goroutine of lines 167-171: "idle", "wait", "closed", "exit"
    progress,       \* displayProgress goroutine: "off", "run", "exit"
    mainPc,         \* position of the goroutine that called Scan
    openPorts,      \* the collector's list
    retPorts, retErr, \* what Scan returned
    bannerCalls,    \* number of grabBanner calls made by the collector
    banner,         \* the collector's variable banner (line 192), <<>> before
    probedOpen,     \* history: ports for which isPortOpen returned true
    probeErrs,      \* history: ports for which isPortOpen returned an error
    pushed,         \* history: ports whose push onto results completed
    dropped,        \* history: open ports given up at the select of line 153
    drawn,          \* history: bag of the ports received at line 138
    call,           \* the last helper call made outside a scan, with its result
    report,         \* what the caller of Scan has shown or stored, and who it is
    scanInProgress, \* web front end: the flag of part_002:484
    scanMutex,      \* web front end: who holds scanMutex (part_002:485)
    scanResults,    \* web front end: the result history, newest record first
    resultsMutex,   \* web front end: resultsMutex: [readers, writer, pending]
    handlers,       \* web front end: the handler goroutine of each request
    tasks,          \* web front end: the scan goroutines started by /scan
    rangePc,        \* range command: position of handleUIRangeCommand
    hostIdx,        \* range command: index of the host of the current iteration
    aliveIdx,       \* range command: index in AlivePorts of the next probe
    rangeCtx,       \* range command: ctx.Err() of its context
    checked,        \* range command, history: hosts isHostAlive was called for
    scanned         \* range command, history: hosts Scan was called for

config == <<startPort, endPort, threads, showProgress, listeners>>
chans == <<ports, portsClosed, results, resultsClosed, done>>
vars == <<startPort, endPort, threads, showProgress, listeners, ctxErr,
          ports, portsClosed, results, resultsClosed, done, wg, spawned,
          workers, feeder, barrier, progress, mainPc, openPorts, retPorts, retErr,
          bannerCalls, banner, probedOpen, probeErrs, pushed, dropped, drawn,
          call, report,
          scanInProgress, scanMutex, scanResults, resultsMutex, handlers, tasks,
          rangePc, hostIdx, aliveIdx, rangeCtx, checked, scanned>>
web == <<scanInProgress, scanMutex, scanResults, resultsMutex, handlers, tasks>>
rangeCmd == <<rangePc, hostIdx, aliveIdx, rangeCtx, checked, scanned>>
frontEnds == <<web, rangeCmd>>
hist == <<probedOpen, probeErrs, pushed, dropped, drawn>>
pool == <<spawned, workers>>

\* ---------------------------------------------------------------- helpers
min(a, b) == IF a < b THEN a ELSE b

portCount == endPort - startPort + 1

\* QueueCap of queues made as long as the range
QueueCapWholeRange == portCount

\* capacity of ports and of results
QueueCap == min(portCount, QueueDepth)

SeqToSet(s) == {s[i] : i \in 1..Len(s)}

\* ------------------------------------------------------- connectivity probe
\* Errors d.DialContext can return, by what the probe can tell about them.
\*   "refused"  an ordinary connection failure
\*   "timeout"  the dialer's own timeout expired (a net.Error with Timeout())
\*   "canceled" the context was cancelled (Is context.Canceled)
\*   "deadline" the context's deadline expired (Timeout(), Is DeadlineExceeded)
Timeout(e) == e \in {"timeout", "deadline"}
IsCanceled(e) == e = "canceled"
IsDeadlineExceeded(e) == e = "deadline"

\* The outcomes of one dial of port p under context state c.  live: the
\* context was not yet cancelled when the dial was started; such a dial may
\* still complete on its own when the cancellation overlaps it, while a dial
\* started on a cancelled context fails with the context's error.
DialContext(c, p, live) ==
    LET natural == IF p \in listeners THEN {"nil"} ELSE {"refused", "timeout"}
        fromCtx == IF c = "Canceled" THEN {"canceled"}
                   ELSE IF c = "DeadlineExceeded" THEN {"deadline"}
                   ELSE {}
    IN IF c = "nil" THEN natural
       ELSE IF live THEN natural \cup fromCtx
       ELSE fromCtx

\* isPortOpen with a cancelled dial classified as a success
isPortOpenCancelIsOpen(dialErr) ==
    IF dialErr # "nil"
    THEN IF Timeout(dialErr) THEN [open |-> FALSE, err |-> "nil"]
         ELSE IF IsCanceled(dialErr) \/ IsDeadlineExceeded(dialErr)
              THEN [open |-> TRUE, err |-> "nil"]
              ELSE [open |-> FALSE, err |-> "nil"]
    ELSE [open |-> TRUE, err |-> "nil"]

\* isPortOpen with an ordinary connection failure reported as an error
isPortOpenFailureIsError(dialErr) ==
    IF dialErr # "nil"
    THEN IF Timeout(dialErr) THEN [open |-> FALSE, err |-> "nil"]
         ELSE [open |-> FALSE, err |-> dialErr]
    ELSE [open |-> TRUE, err |-> "nil"]

isPortOpen(dialErr) ==
    IF dialErr # "nil"
    THEN IF Timeout(dialErr) THEN [open |-> FALSE, err |-> "nil"]
         ELSE IF IsCanceled(dialErr) \/ IsDeadlineExceeded(dialErr)
              THEN [open |-> FALSE, err |-> dialErr]
              ELSE [open |-> FALSE, err |-> "nil"]
    ELSE [open |-> TRUE, err |-> "nil"]

\* no helper has been called
NoCall == [fn |-> "none"]

\* the caller of Scan has not shown or stored anything yet
NoReport == [by |-> "none"]

\* ------------------------------------------------------------ grabBanner
\* A response is a sequence of bytes; the bytes the clean-up tells apart are
\* carriage return, line feed and any other byte.
Bytes == {"CR", "LF", "a"}

\* what conn.Read can deliver into the buffer in one read
Responses == UNION {[1..n -> Bytes] : n \in 1..BufSize}

\* the "..." appended to a truncated banner
Ellipsis == <<".", ".", ".">>

\* strings.ReplaceAll: every non-overlapping occurrence of old, from the left
RECURSIVE ReplaceAll(_, _, _)
ReplaceAll(str, old, new) ==
    IF Len(str) < Len(old) THEN str
    ELSE IF SubSeq(str, 1, Len(old)) = old
         THEN new \o ReplaceAll(SubSeq(str, Len(old) + 1, Len(str)), old, new)
         ELSE <<Head(str)>> \o ReplaceAll(Tail(str), old, new)

\* CleanBanner without the truncation
CleanBannerNeverTruncates(raw) ==
    ReplaceAll(ReplaceAll(raw, <<"CR", "LF">>, <<"SP">>), <<"LF">>, <<"SP">>)

\* CleanBanner with the two replacements in the other order
CleanBannerLineFeedFirst(raw) ==
    LET cleaned == ReplaceAll(ReplaceAll(raw, <<"LF">>, <<"SP">>),
                              <<"CR", "LF">>, <<"SP">>)
    IN IF Len(cleaned) > BannerLimit
       THEN SubSeq(cleaned, 1, BannerLimit) \o Ellipsis
       ELSE cleaned

\* the clean-up of the bytes read: newlines to spaces, then the truncation
CleanBanner(raw) ==
    LET cleaned == ReplaceAll(ReplaceAll(raw, <<"CR", "LF">>, <<"SP">>),
                              <<"LF">>, <<"SP">>)
    IN IF Len(cleaned) > BannerLimit
       THEN SubSeq(cleaned, 1, BannerLimit) \o Ellipsis
       ELSE cleaned

\* the ports of the switch in grabBanner, and one port it does not name
BannerPorts == {21, 22, 25, 80, 443, 587, 8080}

\* RequestPorts of a grabBanner that also asks the TLS port
RequestPortsWithTLS == {80, 443, 8080}

\* the ports grabBanner sends a request to before it reads
RequestPorts == {80, 8080}

\* The step of a grabBanner call that fails: none, or the dial, SetDeadline,
\* the write of the request, the read.
FailSteps == {"none", "dial", "deadline", "write", "read"}

\* grabBanner that closes the connection at its end instead of deferring it
grabBannerCloseAtEnd(port, fail, raw) ==
    IF fail = "dial"
    THEN [banner |-> <<>>, err |-> "dial", conn |-> "none",
          wrote |-> FALSE, reads |-> 0]
    ELSE IF fail = "deadline"
    THEN [banner |-> <<>>, err |-> "deadline", conn |-> "open",
          wrote |-> FALSE, reads |-> 0]
    ELSE IF port \in RequestPorts /\ fail = "write"
    THEN [banner |-> <<>>, err |-> "write", conn |-> "open",
          wrote |-> FALSE, reads |-> 0]
    ELSE IF fail = "read"
    THEN [banner |-> <<>>, err |-> "read", conn |-> "open",
          wrote |-> port \in RequestPorts, reads |-> 1]
    ELSE [banner |-> CleanBanner(raw), err |-> "nil", conn |-> "closed",
          wrote |-> port \in RequestPorts, reads |-> 1]

\* grabBanner: the banner and the error it returns, what has become of the
\* connection, whether a request was written and the number of reads.  fail
\* is the step that fails if the call gets to it, raw the bytes the read
\* delivers if it succeeds.
grabBanner(port, fail, raw) ==
    IF fail = "dial"
    THEN [banner |-> <<>>, err |-> "dial", conn |-> "none",
          wrote |-> FALSE, reads |-> 0]
    ELSE IF fail = "deadline"
    THEN [banner |-> <<>>, err |-> "deadline", conn |-> "closed",
          wrote |-> FALSE, reads |-> 0]
    ELSE IF port \in RequestPorts /\ fail = "write"
    THEN [banner |-> <<>>, err |-> "write", conn |-> "closed",
          wrote |-> FALSE, reads |-> 0]
    ELSE IF fail = "read"
    THEN [banner |-> <<>>, err |-> "read", conn |-> "closed",
          wrote |-> port \in RequestPorts, reads |-> 1]
    ELSE [banner |-> CleanBanner(raw), err |-> "nil", conn |-> "closed",
          wrote |-> port \in RequestPorts, reads |-> 1]

\* ---------------------------------------------------- front ends at rest
\* nobody holds the mutex
Free == <<"none", 0>>
\* the handler of request h, the scan goroutine started for request n, as holders
Handler(h) == <<"handler", h>>
Task(n) == <<"task", n>>

Handlers == 1..MaxHandlers

\* the handler of a request that has not arrived yet
IdleHandler == [path |-> "none", method |-> "none", form |-> "none",
                pc |-> "idle", status |-> 0]

\* part_001:854-855, part_002:484-485: the package variables at program start,
\* no request received yet
WebIdle ==
    /\ scanInProgress = FALSE
    /\ scanMutex = Free
    /\ scanResults = <<>>
    /\ resultsMutex = [readers |-> {}, writer |-> Free, pending |-> Free]
    /\ handlers = [h \in Handlers |-> IdleHandler]
    /\ tasks = {}

\* the range command has not been given
RangeIdle ==
    /\ rangePc = "idle"
    /\ hostIdx = 0
    /\ aliveIdx = 0
    /\ rangeCtx = "nil"
    /\ checked = <<>>
    /\ scanned = <<>>

\* ---------------------------------------------------------------- Init
\* Scan has not run its first line yet.
NotStarted ==
    /\ ctxErr = "nil"
    /\ ports = <<>> /\ portsClosed = FALSE
    /\ results = <<>> /\ resultsClosed = FALSE
    /\ done = FALSE
    /\ wg = 0
    /\ spawned = 0
    /\ workers = EmptyBag
    /\ feeder = [pc |-> "idle", port |-> 0]
    /\ barrier = "idle"
    /\ progress = "off"
    /\ mainPc = "start"
    /\ openPorts = <<>>
    /\ retPorts = <<>> /\ retErr = "pending"
    /\ bannerCalls = 0
    /\ banner = <<>>
    /\ probedOpen = {} /\ probeErrs = {}
    /\ pushed = {} /\ dropped = {}
    /\ drawn = EmptyBag
    /\ call = NoCall
    /\ report = NoReport
    /\ WebIdle
    /\ RangeIdle


\* NewScanner with a valid port range, then the first lines of Scan have not
\* run yet.
Init ==
    /\ startPort \in Ports
    /\ endPort \in Ports
    /\ startPort <= endPort
    /\ threads \in 0..MaxThreads
    /\ showProgress \in BOOLEAN
    /\ listeners \in SUBSET Ports
    /\ NotStarted

\* What WithPortRange accepts: any two integers.  0 and MaxPort + 1 are the
\* port numbers outside the valid range, and the end may lie below the start.
AnyPorts == 0..(MaxPort + 1)

\* NewScanner with any port range of at most MaxPort ports
AnyInit ==
    /\ startPort \in AnyPorts
    /\ endPort \in AnyPorts
    /\ portCount <= MaxPort
    /\ threads \in 0..MaxThreads
    /\ showProgress \in BOOLEAN
    /\ listeners \in SUBSET Ports
    /\ NotStarted

\* ---------------------------------------------------------------- context
\* The caller cancels the context, or its deadline expires.
Cancel ==
    /\ ctxErr = "nil"
    /\ ctxErr' \in {"Canceled", "DeadlineExceeded"}
    /\ UNCHANGED <<config, frontEnds, call, report, banner, chans, wg, pool, feeder, barrier, progress,
                   mainPc, openPorts, retPorts, retErr, bannerCalls, hist>>

\* ---------------------------------------------------------------- main
\* lines 113-122: make the channels, start the progress display.  make with a
\* negative size panics: unrecovered, the panic ends the whole program.
ScanStart ==
    /\ mainPc = "start"
    /\ IF portCount < 0
       THEN /\ mainPc' = "panic"
            /\ UNCHANGED progress
       ELSE /\ mainPc' = "spawn"
            /\ progress' = IF showProgress THEN "run" ELSE "off"
    /\ UNCHANGED <<config, frontEnds, call, report, banner, ctxErr, chans, wg, pool, feeder, barrier,
                   openPorts, retPorts, retErr, bannerCalls, hist>>

\* WorkerTarget with a loop that runs once too often
WorkerTargetOneMore == threads + 1

\* the number of workers the loop of line 128 starts
WorkerTarget == threads

\* a worker at the select of line 134
AtSelect == [pc |-> "select", port |-> 0, live |-> FALSE]

\* lines 128-164: one iteration of the loop that fires up the workers
SpawnWorker ==
    /\ mainPc = "spawn"
    /\ spawned < WorkerTarget
    /\ wg' = wg + 1
    /\ spawned' = spawned + 1
    /\ workers' = workers (+) SetToBag({AtSelect})
    /\ UNCHANGED <<config, frontEnds, call, report, banner, ctxErr, chans, feeder, barrier, progress, mainPc,
                   openPorts, retPorts, retErr, bannerCalls, hist>>

\* FeederFirst with an off-by-one start of the loop
FeederFirstSkipsStart == startPort + 1

\* line 177: the first port the feeder enumerates
FeederFirst == startPort

\* StartStages of a Scan whose list is the Scanner's, carried between calls
StartStagesKeepsList ==
    /\ mainPc = "spawn"
    /\ spawned >= WorkerTarget
    /\ barrier' = "wait"
    /\ feeder' = [pc |-> "feed", port |-> FeederFirst]
    /\ mainPc' = "collect"
    /\ UNCHANGED <<config, frontEnds, call, report, banner, ctxErr, chans, wg, pool, progress, retPorts,
                   retErr, bannerCalls, hist, openPorts>>

\* lines 167-188: start the barrier and the feeder, enter the collector loop
StartStages ==
    /\ mainPc = "spawn"
    /\ spawned >= WorkerTarget
    /\ barrier' = "wait"
    /\ feeder' = [pc |-> "feed", port |-> FeederFirst]
    /\ openPorts' = <<>>
    /\ mainPc' = "collect"
    /\ UNCHANGED <<config, frontEnds, call, report, banner, ctxErr, chans, wg, pool, progress, retPorts,
                   retErr, bannerCalls, hist>>

\* ---------------------------------------------------------------- workers
\* the positions running workers are at
Workers == BagToSet(workers)

\* the pool after the worker at position r has moved to position r2
Moved(r, r2) == (workers (-) SetToBag({r})) (+) SetToBag({r2})

\* the pool after the worker at position r has returned
Exited(r) == workers (-) SetToBag({r})

\* line 135: the select takes the cancellation case; the deferred wg.Done runs
WorkerCtxDone ==
    /\ AtSelect \in Workers
    /\ ctxErr # "nil"
    /\ workers' = Exited(AtSelect)
    /\ wg' = wg - 1
    /\ UNCHANGED <<config, frontEnds, call, report, banner, ctxErr, chans, spawned, feeder, barrier, progress,
                   mainPc, openPorts, retPorts, retErr, bannerCalls, hist>>

\* WorkerDraw of a worker whose probe ignores the state of the context
WorkerDrawIgnoresContext ==
    /\ AtSelect \in Workers
    /\ ports # <<>>
    /\ workers' = Moved(AtSelect, [pc |-> "dial", port |-> Head(ports),
                                   live |-> TRUE])
    /\ ports' = Tail(ports)
    /\ drawn' = drawn (+) SetToBag({Head(ports)})
    /\ UNCHANGED <<config, frontEnds, call, report, banner, ctxErr, portsClosed, results, resultsClosed, done,
                   wg, spawned, feeder, barrier, progress, mainPc, openPorts,
                   retPorts, retErr, bannerCalls, probedOpen, probeErrs,
                   pushed, dropped>>

\* WorkerDraw that leaves the port in the work queue
WorkerDrawLeavesPort ==
    /\ AtSelect \in Workers
    /\ ports # <<>>
    /\ workers' = Moved(AtSelect, [pc |-> "dial", port |-> Head(ports),
                                   live |-> ctxErr = "nil"])
    /\ drawn' = drawn (+) SetToBag({Head(ports)})
    /\ UNCHANGED <<config, frontEnds, call, report, banner, ctxErr, ports, portsClosed, results, resultsClosed, done,
                   wg, spawned, feeder, barrier, progress, mainPc, openPorts,
                   retPorts, retErr, bannerCalls, probedOpen, probeErrs,
                   pushed, dropped>>

\* line 138: the select receives a port and the worker starts the probe
WorkerDraw ==
    /\ AtSelect \in Workers
    /\ ports # <<>>
    /\ workers' = Moved(AtSelect, [pc |-> "dial", port |-> Head(ports),
                                   live |-> ctxErr = "nil"])
    /\ ports' = Tail(ports)
    /\ drawn' = drawn (+) SetToBag({Head(ports)})
    /\ UNCHANGED <<config, frontEnds, call, report, banner, ctxErr, portsClosed, results, resultsClosed, done,
                   wg, spawned, feeder, barrier, progress, mainPc, openPorts,
                   retPorts, retErr, bannerCalls, probedOpen, probeErrs,
                   pushed, dropped>>

\* lines 139-142: the work queue is closed and empty
WorkerNoMoreWork ==
    /\ AtSelect \in Workers
    /\ ports = <<>>
    /\ portsClosed
    /\ workers' = Exited(AtSelect)
    /\ wg' = wg - 1
    /\ UNCHANGED <<config, frontEnds, call, report, banner, ctxErr, chans, spawned, feeder, barrier, progress,
                   mainPc, openPorts, retPorts, retErr, bannerCalls, hist>>

\* AfterProbe without the test of isOpen
AfterProbeIgnoresOpen(r, p) ==
    IF r.err # "nil" THEN AtSelect
    ELSE [pc |-> "send", port |-> p, live |-> FALSE]

\* where a worker goes with the result r of the probe of port p (lines 146-160)
AfterProbe(r, p) ==
    IF r.err # "nil" THEN AtSelect
    ELSE IF r.open THEN [pc |-> "send", port |-> p, live |-> FALSE]
    ELSE AtSelect

\* lines 145-151: the dial returns and isPortOpen classifies it
WorkerProbe ==
    /\ \E w \in Workers :
          /\ w.pc = "dial"
          /\ \E e \in DialContext(ctxErr, w.port, w.live) :
                LET r == isPortOpen(e)
                IN /\ workers' = Moved(w, AfterProbe(r, w.port))
                   /\ probedOpen' = IF r.open THEN probedOpen \cup {w.port}
                                    ELSE probedOpen
                   /\ probeErrs' = IF r.err # "nil" THEN probeErrs \cup {w.port}
                                   ELSE probeErrs
    /\ UNCHANGED <<config, frontEnds, call, report, banner, ctxErr, chans, wg, spawned, feeder, barrier,
                   progress, mainPc, openPorts, retPorts, retErr, bannerCalls,
                   pushed, dropped, drawn>>

\* WorkerSend with a push that gives the port up when the queue is full
WorkerSendDropsWhenFull ==
    /\ \E w \in Workers :
          /\ w.pc = "send"
          /\ results' = IF Len(results) < QueueCap
                        THEN Append(results, w.port) ELSE results
          /\ pushed' = IF Len(results) < QueueCap
                       THEN pushed \cup {w.port} ELSE pushed
          /\ workers' = Moved(w, AtSelect)
    /\ ~resultsClosed
    /\ UNCHANGED <<config, frontEnds, call, report, banner, ctxErr, ports, portsClosed, resultsClosed, done, wg,
                   spawned, feeder, barrier, progress, mainPc, openPorts,
                   retPorts, retErr, bannerCalls, probedOpen, probeErrs,
                   dropped, drawn>>

\* WorkerSend of a worker that appends to the collector's list itself
WorkerSendWritesList ==
    /\ \E w \in Workers :
          /\ w.pc = "send"
          /\ openPorts' = Append(openPorts, w.port)
          /\ pushed' = pushed \cup {w.port}
          /\ workers' = Moved(w, AtSelect)
    /\ ~resultsClosed
    /\ UNCHANGED <<config, frontEnds, call, report, banner, ctxErr, chans, wg,
                   spawned, feeder, barrier, progress, mainPc,
                   retPorts, retErr, bannerCalls, probedOpen, probeErrs,
                   dropped, drawn>>

\* line 154: the result is pushed
WorkerSend ==
    /\ \E w \in Workers :
          /\ w.pc = "send"
          /\ results' = Append(results, w.port)
          /\ pushed' = pushed \cup {w.port}
          /\ workers' = Moved(w, AtSelect)
    /\ ~resultsClosed
    /\ Len(results) < QueueCap
    /\ UNCHANGED <<config, frontEnds, call, report, banner, ctxErr, ports, portsClosed, resultsClosed, done, wg,
                   spawned, feeder, barrier, progress, mainPc, openPorts,
                   retPorts, retErr, bannerCalls, probedOpen, probeErrs,
                   dropped, drawn>>

\* lines 156-158: the push loses against the cancellation
WorkerSendCtxDone ==
    /\ ctxErr # "nil"
    /\ \E w \in Workers :
          /\ w.pc = "send"
          /\ workers' = Exited(w)
          /\ dropped' = dropped \cup {w.port}
    /\ wg' = wg - 1
    /\ UNCHANGED <<config, frontEnds, call, report, banner, ctxErr, chans, spawned, feeder, barrier, progress,
                   mainPc, openPorts, retPorts, retErr, bannerCalls,
                   probedOpen, probeErrs, pushed, drawn>>

Worker ==
    \/ WorkerCtxDone
    \/ WorkerDraw
    \/ WorkerNoMoreWork
    \/ WorkerProbe
    \/ WorkerSend
    \/ WorkerSendCtxDone

\* ---------------------------------------------------------------- barrier
\* BarrierCloseResults of a barrier that does not wait for the workers
BarrierNoWait ==
    /\ barrier = "wait"
    /\ resultsClosed' = TRUE
    /\ barrier' = "closed"
    /\ UNCHANGED <<config, frontEnds, call, report, banner, ctxErr, ports, portsClosed, results, done, wg,
                   pool, feeder, progress, mainPc, openPorts, retPorts,
                   retErr, bannerCalls, hist>>

\* BarrierCloseResults of a barrier that waits for a worker to have run
BarrierNeedsAWorker ==
    /\ barrier = "wait"
    /\ wg = 0
    /\ spawned > 0
    /\ resultsClosed' = TRUE
    /\ barrier' = "closed"
    /\ UNCHANGED <<config, frontEnds, call, report, banner, ctxErr, ports, portsClosed, results, done, wg,
                   pool, feeder, progress, mainPc, openPorts, retPorts,
                   retErr, bannerCalls, hist>>

\* lines 168-169: wg.Wait returns, the results queue is closed
BarrierCloseResults ==
    /\ barrier = "wait"
    /\ wg = 0
    /\ resultsClosed' = TRUE
    /\ barrier' = "closed"
    /\ UNCHANGED <<config, frontEnds, call, report, banner, ctxErr, ports, portsClosed, results, done, wg,
                   pool, feeder, progress, mainPc, openPorts, retPorts,
                   retErr, bannerCalls, hist>>

\* line 170: the completion signal fires
BarrierCloseDone ==
    /\ barrier = "closed"
    /\ done' = TRUE
    /\ barrier' = "exit"
    /\ UNCHANGED <<config, frontEnds, call, report, banner, ctxErr, ports, portsClosed, results, resultsClosed,
                   wg, pool, feeder, progress, mainPc, openPorts, retPorts,
                   retErr, bannerCalls, hist>>

Barrier == BarrierCloseResults \/ BarrierCloseDone

\* ---------------------------------------------------------------- feeder
\* FeederLast with an off-by-one end of the loop
FeederLastPastEnd == endPort + 1

\* line 177: the last port the feeder enumerates
FeederLast == endPort

\* FeederSend into a work queue without a capacity
FeederSendUnbounded ==
    /\ feeder.pc = "feed"
    /\ feeder.port <= FeederLast
    /\ ports' = Append(ports, feeder.port)
    /\ feeder' = [feeder EXCEPT !.port = feeder.port + 1]
    /\ UNCHANGED <<config, frontEnds, call, report, banner, ctxErr, portsClosed, results, resultsClosed, done,
                   wg, pool, barrier, progress, mainPc, openPorts, retPorts,
                   retErr, bannerCalls, hist>>

\* line 181: the next port is inserted
FeederSend ==
    /\ feeder.pc = "feed"
    /\ feeder.port <= FeederLast
    /\ Len(ports) < QueueCap
    /\ ports' = Append(ports, feeder.port)
    /\ feeder' = [feeder EXCEPT !.port = feeder.port + 1]
    /\ UNCHANGED <<config, frontEnds, call, report, banner, ctxErr, portsClosed, results, resultsClosed, done,
                   wg, pool, barrier, progress, mainPc, openPorts, retPorts,
                   retErr, bannerCalls, hist>>

\* FeederCtxDone of a feeder that inserts without a select
FeederNoCtxCase ==
    /\ FALSE
    /\ UNCHANGED vars

\* FeederCtxDone of a feeder that returns without closing the work queue
FeederCtxDoneLeavesOpen ==
    /\ feeder.pc = "feed"
    /\ feeder.port <= FeederLast
    /\ ctxErr # "nil"
    /\ feeder' = [feeder EXCEPT !.pc = "exit"]
    /\ UNCHANGED <<config, frontEnds, call, report, banner, ctxErr, ports, portsClosed, results, resultsClosed, done, wg,
                   pool, barrier, progress, mainPc, openPorts, retPorts,
                   retErr, bannerCalls, hist>>

\* lines 179-180: the select takes the cancellation case; deferred close(ports)
FeederCtxDone ==
    /\ feeder.pc = "feed"
    /\ feeder.port <= FeederLast
    /\ ctxErr # "nil"
    /\ portsClosed' = TRUE
    /\ feeder' = [feeder EXCEPT !.pc = "exit"]
    /\ UNCHANGED <<config, frontEnds, call, report, banner, ctxErr, ports, results, resultsClosed, done, wg,
                   pool, barrier, progress, mainPc, openPorts, retPorts,
                   retErr, bannerCalls, hist>>

\* lines 175, 177: the range is exhausted; deferred close(ports)
FeederFinish ==
    /\ feeder.pc = "feed"
    /\ feeder.port > FeederLast
    /\ portsClosed' = TRUE
    /\ feeder' = [feeder EXCEPT !.pc = "exit"]
    /\ UNCHANGED <<config, frontEnds, call, report, banner, ctxErr, ports, results, resultsClosed, done, wg,
                   pool, barrier, progress, mainPc, openPorts, retPorts,
                   retErr, bannerCalls, hist>>

Feeder == FeederSend \/ FeederCtxDone \/ FeederFinish

\* ---------------------------------------------------------------- collector
\* The steps at which the grabBanner call of line 192 can fail: on a context
\* that is already cancelled its dial fails.
BannerSteps(c) == IF c = "nil" THEN FailSteps ELSE {"dial"}

\* line 192: the banners the call for port p can leave in the collector's
\* variable; the error is discarded.  One byte stands for any text read.
Banners(c, p) == {grabBanner(p, f, <<"a">>).banner : f \in BannerSteps(c)}

\* CollectResult with a collector that waits for the completion signal first
CollectResultAfterDone ==
    /\ mainPc = "collect"
    /\ done
    /\ results # <<>>
    /\ openPorts' = Append(openPorts, Head(results))
    /\ results' = Tail(results)
    /\ bannerCalls' = bannerCalls + 1
    /\ banner' \in Banners(ctxErr, Head(results))
    /\ UNCHANGED <<config, frontEnds, call, report, ctxErr, ports, portsClosed, resultsClosed, done, wg,
                   pool, feeder, barrier, progress, mainPc, retPorts,
                   retErr, hist>>

\* CollectResult of a collector that leaves the banners to the caller
CollectResultNoBanner ==
    /\ mainPc = "collect"
    /\ results # <<>>
    /\ openPorts' = Append(openPorts, Head(results))
    /\ results' = Tail(results)
    /\ UNCHANGED <<config, frontEnds, call, report, banner, ctxErr, ports, portsClosed, resultsClosed, done, wg,
                   pool, feeder, barrier, progress, mainPc, retPorts,
                   retErr, bannerCalls, hist>>

\* CollectResult of a collector that keeps a port only if its banner was read
CollectResultNeedsBanner ==
    /\ mainPc = "collect"
    /\ results # <<>>
    /\ banner' \in Banners(ctxErr, Head(results))
    /\ openPorts' = IF banner' # <<>> THEN Append(openPorts, Head(results))
                    ELSE openPorts
    /\ results' = Tail(results)
    /\ bannerCalls' = bannerCalls + 1
    /\ UNCHANGED <<config, frontEnds, call, report, ctxErr, ports, portsClosed, resultsClosed, done, wg,
                   pool, feeder, barrier, progress, mainPc, retPorts,
                   retErr, hist>>

\* CollectResult of a collector that puts the newest port first
CollectResultPrepends ==
    /\ mainPc = "collect"
    /\ results # <<>>
    /\ openPorts' = <<Head(results)>> \o openPorts
    /\ results' = Tail(results)
    /\ bannerCalls' = bannerCalls + 1
    /\ banner' \in Banners(ctxErr, Head(results))
    /\ UNCHANGED <<config, frontEnds, call, report, ctxErr, ports, portsClosed, resultsClosed, done, wg,
                   pool, feeder, barrier, progress, mainPc, retPorts,
                   retErr, hist>>

\* lines 189-198: one iteration of the range loop: append the port, look up
\* the service name, call grabBanner, print the line with or without banner
CollectResult ==
    /\ mainPc = "collect"
    /\ results # <<>>
    /\ openPorts' = Append(openPorts, Head(results))
    /\ results' = Tail(results)
    /\ bannerCalls' = bannerCalls + 1
    /\ banner' \in Banners(ctxErr, Head(results))
    /\ UNCHANGED <<config, frontEnds, call, report, ctxErr, ports, portsClosed, resultsClosed, done, wg,
                   pool, feeder, barrier, progress, mainPc, retPorts,
                   retErr, hist>>

\* CollectEnd with a collector that also stops on cancellation
CollectEndOnCancel ==
    /\ mainPc = "collect"
    /\ \/ results = <<>> /\ resultsClosed
       \/ ctxErr # "nil" /\ resultsClosed
    /\ mainPc' = "waitDone"
    /\ UNCHANGED <<config, frontEnds, call, report, banner, ctxErr, chans, wg, pool, feeder, barrier,
                   progress, openPorts, retPorts, retErr, bannerCalls, hist>>

\* line 189: the results queue is closed and drained, the loop ends
CollectEnd ==
    /\ mainPc = "collect"
    /\ results = <<>>
    /\ resultsClosed
    /\ mainPc' = "waitDone"
    /\ UNCHANGED <<config, frontEnds, call, report, banner, ctxErr, chans, wg, pool, feeder, barrier,
                   progress, openPorts, retPorts, retErr, bannerCalls, hist>>

\* WaitDone of a Scan that does not wait for the completion signal
WaitDoneSkipsSignal ==
    /\ mainPc = "waitDone"
    /\ mainPc' = IF showProgress THEN "stopProgress" ELSE "final"
    /\ UNCHANGED <<config, frontEnds, call, report, banner, ctxErr, chans, wg, pool, feeder, barrier,
                   progress, openPorts, retPorts, retErr, bannerCalls, hist>>

\* line 201: <-done
WaitDone ==
    /\ mainPc = "waitDone"
    /\ done
    /\ mainPc' = IF showProgress THEN "stopProgress" ELSE "final"
    /\ UNCHANGED <<config, frontEnds, call, report, banner, ctxErr, chans, wg, pool, feeder, barrier,
                   progress, openPorts, retPorts, retErr, bannerCalls, hist>>

\* StopProgress with a notification that does not wait for the display
StopProgressNoWait ==
    /\ mainPc = "stopProgress"
    /\ mainPc' = "final"
    /\ UNCHANGED <<config, frontEnds, call, report, banner, ctxErr, chans, wg, pool, feeder, barrier,
                   progress, openPorts, retPorts, retErr, bannerCalls, hist>>

\* lines 204-206 with displayProgress's case <-done: progressDone has no
\* buffer, so the send is one step with the receive of the progress display
\* at its select; the display then prints the last bar and returns.  Its
\* ticks redraw the bar from the clock alone and change nothing of the scan.
StopProgress ==
    /\ mainPc = "stopProgress"
    /\ progress = "run"
    /\ progress' = "exit"
    /\ mainPc' = "final"
    /\ UNCHANGED <<config, frontEnds, call, report, banner, ctxErr, chans, wg, pool, feeder, barrier,
                   openPorts, retPorts, retErr, bannerCalls, hist>>

\* ScanErr without the cancellation case
ScanErrDropsCancel(c) == "nil"

\* the error of lines 209-214: the cause wrapped by "scan cancelled: %w"
ScanErr(c) == IF c # "nil" THEN c ELSE "nil"

\* ScanPorts with the cancellation case returning no list
ScanPortsEmptyOnCancel(c) == IF c # "nil" THEN <<>> ELSE openPorts

\* ScanPorts of a Scan that sorts the list before it returns it
ScanPortsSorted(c) == SortSeq(openPorts, LAMBDA a, b : a < b)

\* the list of lines 211 and 213
ScanPorts(c) == openPorts

\* lines 209-214: the final select on the cancellation signal
Return ==
    /\ mainPc = "final"
    /\ retPorts' = ScanPorts(ctxErr)
    /\ retErr' = ScanErr(ctxErr)
    /\ mainPc' = "returned"
    /\ UNCHANGED <<config, frontEnds, call, report, banner, ctxErr, chans, wg, pool, feeder, barrier,
                   progress, openPorts, bannerCalls, hist>>

Main ==
    \/ ScanStart
    \/ SpawnWorker
    \/ StartStages
    \/ CollectResult
    \/ CollectEnd
    \/ WaitDone
    \/ StopProgress
    \/ Return

\* ---------------------------------------------------------------- Next
Next ==
    \/ Cancel
    \/ Main
    \/ WorkerCtxDone
    \/ WorkerDraw
    \/ WorkerNoMoreWork
    \/ WorkerProbe
    \/ WorkerSend
    \/ WorkerSendCtxDone
    \/ Barrier
    \/ Feeder

Spec == Init /\ [][Next]_vars

\* Scan called with whatever port range the caller passed
AnySpec == AnyInit /\ [][Next]_vars

\* ---------------------------------------------------------------- callers
\* What each caller does with the list and the error Scan returned.
\* handleUIScanCommand: on an error it prints the error and returns; else it
\* prints the summary with the ports.
handleUIScanCommand(ps, err) ==
    IF err # "nil" THEN [by |-> "scan", error |-> err, ports |-> <<>>]
    ELSE [by |-> "scan", error |-> "nil", ports |-> ps]

\* handleUIRangeCommand: on an error it prints the error and goes on to the
\* next host; else it prints the ports of this host.
handleUIRangeCommand(ps, err) ==
    IF err # "nil" THEN [by |-> "range", error |-> err, ports |-> <<>>]
    ELSE [by |-> "range", error |-> "nil", ports |-> ps]

\* the /scan handler: it fills the port list of the ScanResult only if the
\* error is nil and stores the ScanResult, which has no field for an error.
startWebServer(ps, err) ==
    [by |-> "web", error |-> "nil", ports |-> IF err = "nil" THEN ps ELSE <<>>]

\* The caller acts on what Scan returned.  The interactive commands scan with
\* the progress display and a context cancelled by an interrupt; the web
\* handler scans without the display and with a context that has a deadline.
Report ==
    /\ mainPc = "returned"
    /\ report = NoReport
    /\ \/ /\ showProgress
          /\ retErr # "DeadlineExceeded"
          /\ report' \in {handleUIScanCommand(retPorts, retErr),
                          handleUIRangeCommand(retPorts, retErr)}
       \/ /\ ~showProgress
          /\ retErr # "Canceled"
          /\ report' = startWebServer(retPorts, retErr)
    /\ UNCHANGED <<config, frontEnds, call, banner, ctxErr, chans, wg, pool, feeder, barrier,
                   progress, mainPc, openPorts, retPorts, retErr, bannerCalls,
                   hist>>

ReportNext == Next \/ Report

\* Scan is called again on the same Scanner after it has returned.  The
\* channels, the WaitGroup and the goroutines of a call are locals of that
\* call (lines 114-120, 126, 130, 167, 174): the new call makes its own, and
\* what is left of the earlier call's goroutines works on the earlier
\* channels and is followed no further.  The Scanner's fields and its context
\* stay as they are, and the caller still holds what the first call returned.
\* The previous list stays in openPorts until line 188 declares the new one.
ScanAgain ==
    /\ mainPc = "returned"
    /\ mainPc' = "start"
    /\ ports' = <<>> /\ portsClosed' = FALSE
    /\ results' = <<>> /\ resultsClosed' = FALSE
    /\ done' = FALSE
    /\ wg' = 0
    /\ spawned' = 0
    /\ workers' = EmptyBag
    /\ feeder' = [pc |-> "idle", port |-> 0]
    /\ barrier' = "idle"
    /\ progress' = "off"
    /\ bannerCalls' = 0
    /\ banner' = <<>>
    /\ probedOpen' = {} /\ probeErrs' = {}
    /\ pushed' = {} /\ dropped' = {}
    /\ drawn' = EmptyBag
    /\ UNCHANGED <<config, frontEnds, call, report, ctxErr, openPorts, retPorts, retErr>>

AgainNext == Next \/ ScanAgain

\* a Scanner whose Scan is called any number of times, one call after another
AgainSpec == Init /\ [][AgainNext]_vars

\* a scan and what its caller makes of the result
ReportSpec == Init /\ [][ReportNext]_vars

\* The goroutines are scheduled fairly and every dial returns; whether the
\* context is ever cancelled is up to the caller.  A scan takes finitely many
\* steps, so fairness to the pool is fairness to each of its workers.
Fairness ==
    /\ WF_vars(Main)
    /\ WF_vars(Worker)
    /\ WF_vars(Barrier)
    /\ WF_vars(Feeder)

FairSpec == Spec /\ Fairness

TypeOK ==
    /\ startPort \in Ports /\ endPort \in Ports
    /\ threads \in 0..MaxThreads
    /\ ctxErr \in CtxErrs
    /\ wg \in 0..MaxThreads
    /\ spawned \in 0..MaxThreads
    /\ BagCardinality(workers) <= spawned
    /\ \A w \in Workers : w.pc \in {"select", "dial", "send"}

\* --------------------------------------------------------- helper calls
engine == <<config, ctxErr, chans, wg, pool, feeder, barrier, progress,
            mainPc, openPorts, retPorts, retErr, bannerCalls, banner, hist,
            report>>
scanVars == <<engine, frontEnds>>

\* No scan is running and no helper has been called yet; the target listens on
\* port 1 only.  A behaviour of CallSpec is one call of one helper.
CallInit ==
    /\ Init
    /\ startPort = 1 /\ endPort = 1
    /\ threads = 0
    /\ ~showProgress
    /\ listeners = {1}

\* one call of isPortOpen: a port, a context state, an outcome of the dial
CallIsPortOpen ==
    /\ call = NoCall
    /\ \E p \in Ports, c \in CtxErrs, live \in BOOLEAN :
          \E e \in DialContext(c, p, live) :
             call' = [fn |-> "isPortOpen", port |-> p, ctx |-> c, dial |-> e,
                      res |-> isPortOpen(e)]
    /\ UNCHANGED scanVars

\* one call of grabBanner, as the banner command makes it
CallGrabBanner ==
    /\ call = NoCall
    /\ \E p \in BannerPorts, fail \in FailSteps, raw \in Responses :
          LET res == grabBanner(p, fail, raw)
          IN call' = [fn |-> "grabBanner", port |-> p, fail |-> fail,
                      raw |-> IF res.err = "nil" THEN raw ELSE <<>>,
                      res |-> res]
    /\ UNCHANGED scanVars

\* every outcome a dial can have
DialErrs == {"nil", "refused", "timeout", "canceled", "deadline"}

\* line 249: the ports isHostAlive tries, in this order
AlivePorts == <<80, 443, 22, 3389>>

\* isHostAlive that tries every port before it answers
RECURSIVE isHostAliveTriesAll(_, _)
isHostAliveTriesAll(dials, i) ==
    IF i > Len(AlivePorts) THEN [alive |-> FALSE, probed |-> <<>>]
    ELSE LET rest == isHostAliveTriesAll(dials, i + 1)
         IN [alive |-> isPortOpen(dials[AlivePorts[i]]).open \/ rest.alive,
             probed |-> <<AlivePorts[i]>> \o rest.probed]

\* lines 249-256, from the i-th port of the list on: the answer and the ports
\* probed.  dials[p] is the outcome of the dial of port p; the error of
\* isPortOpen is discarded.
RECURSIVE isHostAlive(_, _)
isHostAlive(dials, i) ==
    IF i > Len(AlivePorts) THEN [alive |-> FALSE, probed |-> <<>>]
    ELSE IF isPortOpen(dials[AlivePorts[i]]).open
         THEN [alive |-> TRUE, probed |-> <<AlivePorts[i]>>]
         ELSE LET rest == isHostAlive(dials, i + 1)
              IN [alive |-> rest.alive,
                  probed |-> <<AlivePorts[i]>> \o rest.probed]

\* one call of isHostAlive: an outcome of the dial for each port of its list
CallIsHostAlive ==
    /\ call = NoCall
    /\ \E dials \in [SeqToSet(AlivePorts) -> DialErrs] :
          call' = [fn |-> "isHostAlive", dials |-> dials,
                   res |-> isHostAlive(dials, 1)]
    /\ UNCHANGED scanVars

CallNext == CallIsPortOpen \/ CallGrabBanner \/ CallIsHostAlive

CallSpec == CallInit /\ [][CallNext]_vars

\* ------------------------------------------------------------ web server
\* What the handlers and the scan goroutine leave alone.
webFrame == <<engine, call, rangeCmd>>

\* the answer of handler h: the status is written and the handler returns
Reply(h, status) ==
    handlers' = [handlers EXCEPT ![h].pc = "done", ![h].status = status]

\* handler h moves on to the position pc
Goto(h, pc) == handlers' = [handlers EXCEPT ![h].pc = pc]

\* what the form of a POST /scan can be: well formed with a host, not
\* parseable (ParseForm fails), parseable without a host
Forms == {"ok", "parseError", "noHost"}

\* the requests a client can send: the page is asked for with GET, /scan and
\* /clear are sent with either method, a POST to /scan carries a form
Requests ==
    {[path |-> "/", method |-> "GET", form |-> "none"]}
    \cup [path : {"/scan", "/clear"}, method : {"GET"}, form : {"none"}]
    \cup {[path |-> "/clear", method |-> "POST", form |-> "none"]}
    \cup [path : {"/scan"}, method : {"POST"}, form : Forms]

\* net/http hands request h to a handler goroutine of its own; the requests
\* are numbered as they arrive
Receive(h) ==
    /\ handlers[h].pc = "idle"
    /\ \A g \in Handlers : g < h => handlers[g].pc # "idle"
    /\ \E r \in Requests :
          handlers' = [handlers EXCEPT ![h] =
                [path |-> r.path, method |-> r.method, form |-> r.form,
                 pc |-> "handle", status |-> 0]]
    /\ UNCHANGED <<scanInProgress, scanMutex, scanResults, resultsMutex, tasks>>
    /\ UNCHANGED webFrame

\* RLockReady of a lock that lets readers in beside a writer
RLockReadyBesideWriter == TRUE

\* sync.RWMutex: RLock waits while a writer holds the lock or waits for it
RLockReady == resultsMutex.writer = Free /\ resultsMutex.pending = Free

\* sync.RWMutex.Lock, first half: the writer announces itself, which keeps new
\* readers out; one writer at a time gets this far
LockAnnounce(who) ==
    /\ resultsMutex.writer = Free /\ resultsMutex.pending = Free
    /\ resultsMutex' = [resultsMutex EXCEPT !.pending = who]

\* sync.RWMutex.Lock, second half: the readers that were inside have left
LockAcquire(who) ==
    /\ resultsMutex.pending = who
    /\ resultsMutex.readers = {}
    /\ resultsMutex' = [resultsMutex EXCEPT !.pending = Free, !.writer = who]

\* sync.RWMutex.Unlock
Unlock(who) ==
    /\ resultsMutex.writer = who
    /\ resultsMutex' = [resultsMutex EXCEPT !.writer = Free]

\* ---- the / handler, part_002:857-867
\* line 859
RenderRLock(h) ==
    /\ handlers[h].path = "/" /\ handlers[h].pc = "handle"
    /\ RLockReady
    /\ resultsMutex' = [resultsMutex EXCEPT !.readers = @ \cup {h}]
    /\ Goto(h, "render")
    /\ UNCHANGED <<scanInProgress, scanMutex, scanResults, tasks>>
    /\ UNCHANGED webFrame

\* lines 863-866 and the deferred RUnlock of line 860: the template is
\* executed on scanResults, with or without an error
RenderExecute(h) ==
    /\ handlers[h].path = "/" /\ handlers[h].pc = "render"
    /\ resultsMutex' = [resultsMutex EXCEPT !.readers = @ \ {h}]
    /\ \E status \in {200, 500} : Reply(h, status)
    /\ UNCHANGED <<scanInProgress, scanMutex, scanResults, tasks>>
    /\ UNCHANGED webFrame

\* ---- the /scan handler, part_002:870-994
\* lines 871-874
ScanMethodNotAllowed(h) ==
    /\ handlers[h].path = "/scan" /\ handlers[h].pc = "handle"
    /\ handlers[h].method # "POST"
    /\ Reply(h, 405)
    /\ UNCHANGED <<scanInProgress, scanMutex, scanResults, resultsMutex, tasks>>
    /\ UNCHANGED webFrame

\* line 877
ScanLock(h) ==
    /\ handlers[h].path = "/scan" /\ handlers[h].pc = "handle"
    /\ handlers[h].method = "POST"
    /\ scanMutex = Free
    /\ scanMutex' = Handler(h)
    /\ Goto(h, "check")
    /\ UNCHANGED <<scanInProgress, scanResults, resultsMutex, tasks>>
    /\ UNCHANGED webFrame

\* lines 878-882
ScanConflict(h) ==
    /\ handlers[h].pc = "check"
    /\ scanInProgress
    /\ scanMutex' = Free
    /\ Reply(h, 409)
    /\ UNCHANGED <<scanInProgress, scanResults, resultsMutex, tasks>>
    /\ UNCHANGED webFrame

\* ScanClaim of a handler that does not look at the flag
ScanClaimIgnoresFlag(h) ==
    /\ handlers[h].pc = "check"
    /\ scanInProgress' = TRUE
    /\ scanMutex' = Free
    /\ Goto(h, "parse")
    /\ UNCHANGED <<scanResults, resultsMutex, tasks>>
    /\ UNCHANGED webFrame

\* lines 883-884
ScanClaim(h) ==
    /\ handlers[h].pc = "check"
    /\ ~scanInProgress
    /\ scanInProgress' = TRUE
    /\ scanMutex' = Free
    /\ Goto(h, "parse")
    /\ UNCHANGED <<scanResults, resultsMutex, tasks>>
    /\ UNCHANGED webFrame

\* ScanBadForm of a handler that answers at once, the flag left set
ScanBadFormLeavesFlag(h) ==
    /\ handlers[h].pc = "parse"
    /\ handlers[h].form # "ok"
    /\ Reply(h, 400)
    /\ UNCHANGED <<scanInProgress, scanMutex, scanResults, resultsMutex, tasks>>
    /\ UNCHANGED webFrame

\* lines 887-888 and 897-898: ParseForm fails, or the host is empty
ScanBadForm(h) ==
    /\ handlers[h].pc = "parse"
    /\ handlers[h].form # "ok"
    /\ Goto(h, "relock")
    /\ UNCHANGED <<scanInProgress, scanMutex, scanResults, resultsMutex, tasks>>
    /\ UNCHANGED webFrame

\* lines 889 and 899
ScanResetLock(h) ==
    /\ handlers[h].pc = "relock"
    /\ scanMutex = Free
    /\ scanMutex' = Handler(h)
    /\ Goto(h, "reset")
    /\ UNCHANGED <<scanInProgress, scanResults, resultsMutex, tasks>>
    /\ UNCHANGED webFrame

\* lines 890-893 and 900-903
ScanReset(h) ==
    /\ handlers[h].pc = "reset"
    /\ scanInProgress' = FALSE
    /\ scanMutex' = Free
    /\ Reply(h, 400)
    /\ UNCHANGED <<scanResults, resultsMutex, tasks>>
    /\ UNCHANGED webFrame

\* lines 906-994: the numbers of the form are clamped to usable values, the
\* scan goroutine is started and the request is answered
ScanAccept(h) ==
    /\ handlers[h].pc = "parse"
    /\ handlers[h].form = "ok"
    /\ tasks' = tasks \cup {[id |-> h, pc |-> "scan", ports |-> <<>>]}
    /\ Reply(h, 202)
    /\ UNCHANGED <<scanInProgress, scanMutex, scanResults, resultsMutex>>
    /\ UNCHANGED webFrame

\* ---- the scan goroutine, part_002:931-989
\* task t is at the position pc, with the ports it has found
Moves(t, pc, found) ==
    tasks' = (tasks \ {t}) \cup {[id |-> t.id, pc |-> pc, ports |-> found]}

\* the lists of open ports a scan of the form's range can come back with
Found == {<<>>, <<1>>}

\* lines 940-974: Scan returns, with a nil error or because the two minutes
\* are over; the record gets the ports only of a scan without error.  The
\* form's thread count is at least 10 and its range is valid (lines 908-929).
TaskScan(t) ==
    /\ t.pc = "scan"
    /\ \E err \in {"nil", "DeadlineExceeded"}, found \in Found :
          Moves(t, "lock", startWebServer(found, err).ports)
    /\ UNCHANGED <<scanInProgress, scanMutex, scanResults, resultsMutex, handlers>>
    /\ UNCHANGED webFrame

\* line 985
TaskLock(t) ==
    /\ t.pc = "lock"
    /\ LockAnnounce(Task(t.id))
    /\ Moves(t, "pending", t.ports)
    /\ UNCHANGED <<scanInProgress, scanMutex, scanResults, handlers>>
    /\ UNCHANGED webFrame

TaskLocked(t) ==
    /\ t.pc = "pending"
    /\ LockAcquire(Task(t.id))
    /\ Moves(t, "append", t.ports)
    /\ UNCHANGED <<scanInProgress, scanMutex, scanResults, handlers>>
    /\ UNCHANGED webFrame

\* lines 986-987: the record is put in front of the history
TaskAppend(t) ==
    /\ t.pc = "append"
    /\ scanResults' = <<[scan |-> t.id, ports |-> t.ports]>> \o scanResults
    /\ Unlock(Task(t.id))
    /\ Moves(t, "finish", t.ports)
    /\ UNCHANGED <<scanInProgress, scanMutex, handlers>>
    /\ UNCHANGED webFrame

\* the deferred function of lines 932-937, entered after the deferred cancel
\* of line 941: line 934
TaskFinishLock(t) ==
    /\ t.pc = "finish"
    /\ scanMutex = Free
    /\ scanMutex' = Task(t.id)
    /\ Moves(t, "reset", t.ports)
    /\ UNCHANGED <<scanInProgress, scanResults, resultsMutex, handlers>>
    /\ UNCHANGED webFrame

\* lines 935-936, and the goroutine ends
TaskFinish(t) ==
    /\ t.pc = "reset"
    /\ scanInProgress' = FALSE
    /\ scanMutex' = Free
    /\ tasks' = tasks \ {t}
    /\ UNCHANGED <<scanResults, resultsMutex, handlers>>
    /\ UNCHANGED webFrame

\* ---- the /clear handler, part_002:1008-1021
\* lines 1009-1012
ClearMethodNotAllowed(h) ==
    /\ handlers[h].path = "/clear" /\ handlers[h].pc = "handle"
    /\ handlers[h].method # "POST"
    /\ Reply(h, 405)
    /\ UNCHANGED <<scanInProgress, scanMutex, scanResults, resultsMutex, tasks>>
    /\ UNCHANGED webFrame

\* line 1015
ClearLock(h) ==
    /\ handlers[h].path = "/clear" /\ handlers[h].pc = "handle"
    /\ handlers[h].method = "POST"
    /\ LockAnnounce(Handler(h))
    /\ Goto(h, "pending")
    /\ UNCHANGED <<scanInProgress, scanMutex, scanResults, tasks>>
    /\ UNCHANGED webFrame

ClearLocked(h) ==
    /\ handlers[h].pc = "pending"
    /\ LockAcquire(Handler(h))
    /\ Goto(h, "clear")
    /\ UNCHANGED <<scanInProgress, scanMutex, scanResults, tasks>>
    /\ UNCHANGED webFrame

\* lines 1016-1020
Clear(h) ==
    /\ handlers[h].pc = "clear"
    /\ scanResults' = <<>>
    /\ Unlock(Handler(h))
    /\ Reply(h, 303)
    /\ UNCHANGED <<scanInProgress, scanMutex, tasks>>
    /\ UNCHANGED webFrame

\* the steps of handler h once it has its request
HandlerStep(h) ==
    \/ RenderRLock(h)
    \/ RenderExecute(h)
    \/ ScanMethodNotAllowed(h)
    \/ ScanLock(h)
    \/ ScanConflict(h)
    \/ ScanClaim(h)
    \/ ScanBadForm(h)
    \/ ScanResetLock(h)
    \/ ScanReset(h)
    \/ ScanAccept(h)
    \/ ClearMethodNotAllowed(h)
    \/ ClearLock(h)
    \/ ClearLocked(h)
    \/ Clear(h)

\* the steps of the scan goroutine t
TaskStep(t) ==
    \/ TaskScan(t)
    \/ TaskLock(t)
    \/ TaskLocked(t)
    \/ TaskAppend(t)
    \/ TaskFinishLock(t)
    \/ TaskFinish(t)

\* the steps of the scan goroutine started for request n
TaskOf(n) == \E t \in tasks : t.id = n /\ TaskStep(t)

WebNext ==
    \/ \E h \in Handlers : Receive(h)
    \/ \E h \in Handlers : HandlerStep(h)
    \/ \E n \in Handlers : TaskOf(n)

\* startWebServer with no scan of the command line under way
WebInit == CallInit

\* the web server and its requests
WebSpec == WebInit /\ [][WebNext]_vars

\* Every handler and every scan goroutine keeps running and a Scan with at
\* least one worker returns.  Which requests arrive is up to the clients.
WebFairness ==
    /\ \A h \in Handlers : WF_vars(HandlerStep(h))
    /\ \A n \in Handlers : WF_vars(TaskOf(n))

WebFairSpec == WebSpec /\ WebFairness

\* --------------------------------------------------------- range command
\* What the range command leaves alone.  Its scans are calls of Scan on a new
\* Scanner each; here a call is a step that returns.
rangeFrame == <<engine, call, web>>

\* expandIPRange gives the hosts of the range in address order (part_001:456)
Hosts == 1..MaxHosts

\* lines 396-414: the range is expanded, the context made and the goroutine
\* that waits for an interrupt started; the loop is at its first host
RangeStart ==
    /\ rangePc = "idle"
    /\ rangePc' = "select"
    /\ hostIdx' = 1
    /\ UNCHANGED <<aliveIdx, rangeCtx, checked, scanned>>
    /\ UNCHANGED rangeFrame

\* lines 407-413: the user interrupts, the goroutine calls cancel
RangeCancel ==
    /\ rangePc \notin {"idle", "done"}
    /\ rangeCtx = "nil"
    /\ rangeCtx' = "Canceled"
    /\ UNCHANGED <<rangePc, hostIdx, aliveIdx, checked, scanned>>
    /\ UNCHANGED rangeFrame

\* RangeSelect of a loop that does not look at the context
RangeSelectIgnoresCancel ==
    /\ rangePc = "select"
    /\ rangePc' = IF hostIdx > MaxHosts THEN "done" ELSE "call"
    /\ UNCHANGED <<hostIdx, aliveIdx, rangeCtx, checked, scanned>>
    /\ UNCHANGED rangeFrame

\* lines 416-425: the loop ends after the last host; the select returns from
\* the command if the context is done and falls through otherwise
RangeSelect ==
    /\ rangePc = "select"
    /\ rangePc' = IF hostIdx > MaxHosts \/ rangeCtx # "nil" THEN "done" ELSE "call"
    /\ UNCHANGED <<hostIdx, aliveIdx, rangeCtx, checked, scanned>>
    /\ UNCHANGED rangeFrame

\* lines 427-429: isHostAlive is called for the host
RangeIsHostAlive ==
    /\ rangePc = "call"
    /\ checked' = Append(checked, hostIdx)
    /\ aliveIdx' = 1
    /\ rangePc' = "alive"
    /\ UNCHANGED <<hostIdx, rangeCtx, scanned>>
    /\ UNCHANGED rangeFrame

\* scanner.go:249-250: isPortOpen starts the dial of the next port of the list;
\* the dial is live if the context is not yet cancelled
RangeDial ==
    /\ rangePc = "alive"
    /\ rangePc' = IF rangeCtx = "nil" THEN "dialLive" ELSE "dialDead"
    /\ UNCHANGED <<hostIdx, aliveIdx, rangeCtx, checked, scanned>>
    /\ UNCHANGED rangeFrame

\* the outcomes of a dial of the host: its own answer, or the cancellation; a
\* dial started with the context cancelled fails with the cancellation
RangeDialOutcomes ==
    IF rangePc = "dialDead" THEN {"canceled"}
    ELSE IF rangeCtx = "nil" THEN {"nil", "refused", "timeout"}
    ELSE {"nil", "refused", "timeout", "canceled"}

\* scanner.go:250-256 and part_002:429-433: the dial ends; an open port makes
\* isHostAlive return true, after the last port it returns false and the loop
\* goes to the next host
RangeDialed ==
    /\ rangePc \in {"dialLive", "dialDead"}
    /\ \E d \in RangeDialOutcomes :
          IF isPortOpen(d).open
          THEN /\ rangePc' = "up"
               /\ UNCHANGED <<hostIdx, aliveIdx>>
          ELSE IF aliveIdx < Len(AlivePorts)
          THEN /\ rangePc' = "alive"
               /\ aliveIdx' = aliveIdx + 1
               /\ UNCHANGED hostIdx
          ELSE /\ rangePc' = "select"
               /\ hostIdx' = hostIdx + 1
               /\ UNCHANGED aliveIdx
    /\ UNCHANGED <<rangeCtx, checked, scanned>>
    /\ UNCHANGED rangeFrame

\* lines 434-447: the Scanner is made and Scan is called
RangeScan ==
    /\ rangePc = "up"
    /\ scanned' = Append(scanned, hostIdx)
    /\ rangePc' = "scan"
    /\ UNCHANGED <<hostIdx, aliveIdx, rangeCtx, checked>>
    /\ UNCHANGED rangeFrame

\* lines 447-466: Scan returns, the error or the ports are printed and the
\* loop goes to the next host
RangeScanned ==
    /\ rangePc = "scan"
    /\ rangePc' = "select"
    /\ hostIdx' = hostIdx + 1
    /\ UNCHANGED <<aliveIdx, rangeCtx, checked, scanned>>
    /\ UNCHANGED rangeFrame

RangeNext ==
    \/ RangeStart
    \/ RangeCancel
    \/ RangeSelect
    \/ RangeIsHostAlive
    \/ RangeDial
    \/ RangeDialed
    \/ RangeScan
    \/ RangeScanned

\* the range command given once, over MaxHosts hosts
RangeSpec == CallInit /\ [][RangeNext]_vars

\* ================================================================ claims
Range == startPort..endPort

Returned == mainPc = "returned"

NoDup(s) == \A i, j \in 1..Len(s) : i # j => s[i] # s[j]

\* the ports a probe outside the engine reports open
DirectProbeOpen ==
    {p \in Ports : \E e \in DialContext("nil", p, TRUE) : isPortOpen(e).open}

\* the result set of a scan of the range that is never cancelled
FullScanResult == DirectProbeOpen \cap Range

\* the number of probes in flight
InFlight == BagCardinality([w \in {x \in Workers : x.pc = "dial"} |-> workers[w]])

AllExited ==
    /\ Returned
    /\ feeder.pc = "exit"
    /\ barrier = "exit"
    /\ spawned = threads
    /\ workers = EmptyBag

\* C1: with concurrency >= 1, a scan that returns a nil error returns exactly
\* the listening ports of the range, as a set.
C1_NilErrorExactSet ==
    (Returned /\ retErr = "nil" /\ threads >= 1)
        => SeqToSet(retPorts) = listeners \cap Range

C1_Witness ==
    /\ Returned /\ retErr = "nil" /\ threads >= 1
    /\ retPorts # <<>>
    /\ Range \ listeners # {}

\* C2: in every state the collected list holds each port at most once and
\* only ports of the range, and the returned list has at most portCount
\* entries.
C2_UniqueInRange ==
    /\ NoDup(openPorts)
    /\ SeqToSet(openPorts) \subseteq Range
    /\ Len(openPorts) <= portCount
    /\ Len(retPorts) <= portCount

C2_Witness ==
    /\ Returned
    /\ Len(retPorts) = portCount
    /\ portCount >= 2

\* C3: every collected or returned port was classified open by a probe of
\* this scan, and is a port a direct probe reports open.
C3_ReturnedWereProbedOpen ==
    /\ SeqToSet(openPorts) \subseteq probedOpen
    /\ SeqToSet(retPorts) \subseteq probedOpen
    /\ SeqToSet(retPorts) \subseteq DirectProbeOpen

C3_Witness ==
    /\ Returned
    /\ retPorts # <<>>
    /\ Range \ SeqToSet(retPorts) # {}

\* C4: at most `threads` probes are in flight, and the pool has exactly
\* `threads` workers once the loop that starts them is over.
C4_InFlightAtMostThreads ==
    /\ InFlight <= threads
    /\ spawned <= threads
    /\ BagCardinality(workers) <= spawned
    /\ mainPc \notin {"start", "spawn"} => spawned = threads

C4_Witness ==
    /\ threads >= 2
    /\ InFlight = threads

\* C5: the step that returns from Scan is taken after the completion signal,
\* returns an error exactly when the context is cancelled at that step, and
\* the error is the context's cause, never a probe's error.
C5_ErrorIffCancelledAtCheck ==
    [][(mainPc = "final" /\ mainPc' = "returned")
          => /\ done
             /\ retErr' # "nil" <=> ctxErr # "nil"
             /\ retErr' \in {"nil", ctxErr}
             /\ retErr' \notin {"refused", "timeout", "canceled", "deadline"}]_vars

C5_Witness ==
    /\ Returned
    /\ retErr = "Canceled"
    /\ probeErrs # {}

\* C6: with concurrency >= 1, once the context is cancelled every stage
\* terminates and Scan returns (fair scheduling, every dial returns).
C6_CancelLeadsToAllExited ==
    (ctxErr # "nil" /\ threads >= 1) ~> AllExited

C6_Witness ==
    /\ AllExited
    /\ threads >= 1
    /\ retErr # "nil"
    /\ ports # <<>>
    /\ feeder.port <= endPort

\* C7: with concurrency >= 1, a scan that is never cancelled eventually
\* returns a nil error (fair scheduling, every dial returns).
C7_UncancelledCompletes ==
    (threads >= 1 /\ [](ctxErr = "nil")) => <>(Returned /\ retErr = "nil")

C7_Witness ==
    /\ Returned
    /\ retErr = "nil"
    /\ threads >= 1
    /\ Len(retPorts) > QueueCap

\* C8: when Scan has returned, cancelled or not, the results queue is drained
\* and every port pushed onto it is in the returned list.
C8_PushedAreReturned ==
    Returned => /\ results = <<>>
                /\ pushed \subseteq SeqToSet(retPorts)
                /\ retPorts = openPorts

C8_Witness ==
    /\ Returned
    /\ retErr # "nil"
    /\ Cardinality(pushed) >= 2

\* C9 as stated: a cancelled scan returns every port whose probe succeeded,
\* and a non-empty list if there is one.
C9_CancelledKeepsEveryOpenProbe ==
    (Returned /\ retErr # "nil" /\ probedOpen # {})
        => /\ retPorts # <<>>
           /\ probedOpen \subseteq SeqToSet(retPorts)

\* C9 amended: a cancelled scan returns every port whose probe succeeded
\* except those a worker gave up at the select of line 153, and a non-empty
\* list if there is such a port.
C9_CancelledKeepsPushedProbes ==
    (Returned /\ retErr # "nil")
        => /\ (probedOpen \ dropped) \subseteq SeqToSet(retPorts)
           /\ (probedOpen \ dropped # {}) => retPorts # <<>>
           /\ dropped \cap SeqToSet(retPorts) = {}

C9_Witness ==
    /\ Returned
    /\ retErr # "nil"
    /\ dropped # {}
    /\ retPorts # <<>>

\* C10: the list a cancelled scan returns has no duplicate and holds only
\* ports of the result set of the scan that is not cancelled.
C10_CancelledSubsetOfFull ==
    (Returned /\ retErr # "nil")
        => /\ SeqToSet(retPorts) \subseteq FullScanResult
           /\ NoDup(retPorts)

C10_Witness ==
    /\ Returned
    /\ retErr # "nil"
    /\ retPorts # <<>>
    /\ FullScanResult \ SeqToSet(retPorts) # {}
    /\ probeErrs # {}

\* the list a scan of the range returns that probes one port after the other
RECURSIVE SequentialScan(_, _)
SequentialScan(p, last) ==
    IF p > last THEN <<>>
    ELSE (IF p \in DirectProbeOpen THEN <<p>> ELSE <<>>)
             \o SequentialScan(p + 1, last)

\* C11: a scan that is not cancelled returns, with one worker, the list of
\* the sequential scan and, with any number of workers, the same set of ports.
C11_SameSetForAnyConcurrency ==
    (Returned /\ retErr = "nil" /\ threads >= 1)
        => /\ threads = 1 => retPorts = SequentialScan(startPort, endPort)
           /\ SeqToSet(retPorts)
                 = SeqToSet(SequentialScan(startPort, endPort))
           /\ Len(retPorts) = Len(SequentialScan(startPort, endPort))

C11_Witness ==
    /\ Returned /\ retErr = "nil"
    /\ threads >= 2
    /\ Len(retPorts) >= 2
    /\ retPorts # SequentialScan(startPort, endPort)

\* C12: with concurrency >= 1, when Scan has returned every worker and the
\* barrier have exited, and the feeder has exited or exits on its own.
C12_NoTaskLeaked ==
    /\ [](Returned /\ threads >= 1
            => /\ workers = EmptyBag
               /\ spawned = threads
               /\ wg = 0
               /\ barrier = "exit")
    /\ (Returned /\ threads >= 1) ~> (feeder.pc = "exit")

C12_Witness ==
    /\ Returned
    /\ threads >= 1
    /\ retErr # "nil"
    /\ feeder.pc = "feed"
    /\ feeder.port <= endPort

\* C15: between the start of Scan and its return no stage of the engine
\* calls grabBanner.
C15_EngineNeverGrabsBanner == bannerCalls = 0

\* C15, amended: the collector calls grabBanner once for each port it takes
\* from the results queue, before Scan returns; the list Scan returns has one
\* entry for each of these calls.
C15_OneBannerCallPerCollectedPort ==
    /\ bannerCalls = Len(openPorts)
    /\ Returned => bannerCalls = Len(retPorts)

C15_Witness ==
    /\ mainPc = "collect"
    /\ bannerCalls >= 1
    /\ ~resultsClosed

\* the port range is valid: both ends are port numbers, the end not below
\* the start
ValidRange ==
    /\ startPort \in Ports
    /\ endPort \in Ports
    /\ startPort <= endPort

\* C16: Scan rejects an invalid port range before any probe is started: no
\* panic, no probe.
C16_InvalidRangeRejected ==
    ~ValidRange
        => /\ mainPc # "panic"
           /\ InFlight = 0
           /\ probedOpen = {} /\ probeErrs = {}

\* C17: with a concurrency limit of zero and no cancellation the completion
\* barrier never fires and Scan never returns.
C17_ZeroThreadsNeverReturns ==
    (threads = 0 /\ ctxErr = "nil")
        => /\ barrier \notin {"closed", "exit"}
           /\ ~done
           /\ ~Returned

\* C17, amended: with a concurrency limit of zero the barrier fires at once
\* and Scan returns the empty list without a probe; while the scan is not
\* cancelled, the feeder of a range longer than the queue never exits.
C17_ZeroThreadsReturnsEmpty ==
    /\ (threads = 0 /\ mainPc = "start") ~> Returned
    /\ [](threads = 0
            => /\ workers = EmptyBag
               /\ probedOpen = {} /\ probeErrs = {}
               /\ bannerCalls = 0
               /\ Returned => retPorts = <<>>
               /\ (ctxErr = "nil" /\ portCount > QueueCap)
                      => feeder.pc # "exit")

C17_Witness ==
    /\ Returned
    /\ threads = 0
    /\ retErr = "nil"
    /\ retPorts = <<>>
    /\ Range \cap listeners # {}
    /\ feeder.pc = "feed"
    /\ Len(ports) = QueueCap

\* C21: a failure of the banner probe is local to one open port: the port is
\* still appended to the collector's list and is in the list Scan returns,
\* the entries of the other ports stay as they are, the error Scan returns is
\* the context's and never the probe's, and the scan goes on to its return.
C21_BannerFailureIsLocal ==
    /\ [][(bannerCalls' # bannerCalls /\ banner' = <<>>)
             => /\ openPorts' = Append(openPorts, Head(results))
                /\ mainPc' = "collect"
                /\ UNCHANGED <<retPorts, retErr, ctxErr, pool, wg, ports, hist>>]_vars
    /\ [](Returned
             => /\ Len(retPorts) = bannerCalls
                /\ retPorts = openPorts
                /\ retErr \in CtxErrs
                /\ (retErr = "nil" /\ threads >= 1)
                       => SeqToSet(retPorts) = FullScanResult)
    /\ (bannerCalls >= 1 /\ banner = <<>>) ~> Returned

C21_Witness ==
    /\ Returned
    /\ retErr = "nil"
    /\ banner = <<>>
    /\ Len(retPorts) >= 2

\* C23: Scan's return never depends on a step of the progress display: the
\* notification of line 205 does not wait for it.
C23_ReturnNeedsNoProgressStep ==
    [][(mainPc = "stopProgress" /\ mainPc' = "final") => progress' = progress]_vars

\* C23, amended: with progress reporting enabled Scan passes line 205 only in
\* the step in which the progress display, at its select, receives the stop
\* signal, so the display has exited when Scan returns; no step of the
\* display changes the work queue, the results queue or the collected ports.
C23_ReturnWaitsForProgress ==
    /\ [][(mainPc = "stopProgress" /\ mainPc' # mainPc)
             => progress = "run" /\ progress' = "exit"]_vars
    /\ [][progress' # progress
             => UNCHANGED <<ports, portsClosed, results, resultsClosed,
                            openPorts>>]_vars
    /\ [](Returned /\ showProgress => progress = "exit")

C23_Witness ==
    /\ Returned
    /\ showProgress
    /\ progress = "exit"
    /\ retPorts # <<>>

\* C25: what the caller shows or stores after a scan is either the full
\* result with no error or, for a cancelled scan whose engine run collected
\* open ports, those ports together with a cancelled indication.
C25_CallerKeepsPartialResult ==
    report # NoReport
        => IF retErr = "nil"
           THEN report.ports = retPorts /\ report.error = "nil"
           ELSE retPorts # <<>>
                    => report.ports = retPorts /\ report.error # "nil"

\* C26: the results queue is closed once, by the barrier, after every worker
\* has exited; no worker pushes onto it or is still running once it is
\* closed; the completion signal fires only after the close, and Scan returns
\* only after the completion signal.
C26_CloseAfterWorkersThenSignal ==
    /\ [][resultsClosed' # resultsClosed
             => /\ ~resultsClosed
                /\ barrier = "wait" /\ barrier' = "closed"
                /\ workers = EmptyBag /\ spawned = threads /\ wg = 0]_vars
    /\ [][Len(results') > Len(results) => ~resultsClosed /\ ~resultsClosed']_vars
    /\ [](resultsClosed => workers = EmptyBag /\ spawned = threads)
    /\ [](done => resultsClosed)
    /\ [](Returned => done)

C26_Witness ==
    /\ resultsClosed
    /\ ~done
    /\ threads >= 2
    /\ results # <<>>
    /\ pushed # {}

\* a sequence of numbers in strictly increasing order
Increasing(q) == \A i, j \in 1..Len(q) : i < j => q[i] < q[j]

\* C27: the feeder inserts the ports of [start, end] into the work queue in
\* strictly increasing order from start on, each at most once; it closes the
\* queue once, on either exit path, and inserts nothing after the close; the
\* work queue and the results queue never hold more than min(portCount,
\* QueueDepth) entries.
C27_FeederInOrderWithinCapacity ==
    /\ [][Len(ports') > Len(ports)
             => /\ ~portsClosed /\ ~portsClosed'
                /\ ports' = Append(ports, feeder.port)
                /\ feeder.port \in Range
                /\ feeder'.port = feeder.port + 1]_vars
    /\ [][(feeder.pc = "idle" /\ feeder'.pc # "idle")
             => feeder'.port = startPort /\ ports' = <<>>]_vars
    /\ [][portsClosed' # portsClosed
             => ~portsClosed /\ feeder.pc = "feed" /\ feeder'.pc = "exit"]_vars
    /\ [](feeder.pc = "exit" <=> portsClosed)
    /\ [](/\ Increasing(ports)
          /\ \A i \in 1..Len(ports) : ports[i] \in Range /\ ports[i] < feeder.port)
    /\ [](Len(ports) <= min(portCount, QueueDepth)
            /\ Len(results) <= min(portCount, QueueDepth))

C27_Witness ==
    /\ portsClosed
    /\ ctxErr # "nil"
    /\ feeder.port \in (startPort + 1)..endPort
    /\ Len(ports) = min(portCount, QueueDepth)

\* the ports of which a probe is in flight after a draw made on a cancelled
\* context
DrawnAfterCancel == {w.port : w \in {x \in Workers : x.pc = "dial" /\ ~x.live}}

\* C28: once the context is cancelled no worker draws a further port from the
\* work queue and no new probe is started.
C28_NoDrawAfterCancel ==
    [][ctxErr # "nil" => Len(ports') >= Len(ports)]_vars

\* C28, amended: a worker at its select may still draw after the
\* cancellation; the probe of a port drawn then is made on the cancelled
\* context and never reports the port open, and the worker goes back to the
\* select, not out of the loop.
C28_DrawAfterCancelFindsNothing ==
    /\ [][(ctxErr # "nil" /\ Len(ports') < Len(ports))
             => /\ Head(ports) \in DrawnAfterCancel'
                /\ BagCardinality(workers') = BagCardinality(workers)]_vars
    /\ [][\A p \in DrawnAfterCancel \ DrawnAfterCancel' :
              /\ AtSelect \in BagToSet(workers')
              /\ p \notin probedOpen'
              /\ BagCardinality(workers') = BagCardinality(workers)]_vars
    /\ [](DrawnAfterCancel \cap probedOpen = {})

C28_Witness ==
    /\ ctxErr # "nil"
    /\ DrawnAfterCancel # {}
    /\ probeErrs # {}
    /\ threads = 1

\* C29: after the context is cancelled the feeder inserts no further port
\* into the work queue.
C29_NoInsertAfterCancel ==
    [][ctxErr # "nil" => Len(ports') <= Len(ports)]_vars

\* C29, amended: after the cancellation the feeder may still insert while the
\* queue has room; it never waits for room: it leaves the loop and closes the
\* queue, at the latest when the queue is full or the range is exhausted.
C29_FeederStopsAfterCancel ==
    /\ [][(ctxErr # "nil" /\ Len(ports') > Len(ports))
             => Len(ports) < QueueCap /\ feeder.port <= endPort]_vars
    /\ ctxErr # "nil" ~> (feeder.pc = "exit" /\ portsClosed)

C29_Witness ==
    /\ ctxErr # "nil"
    /\ feeder.pc = "exit"
    /\ feeder.port <= endPort
    /\ ports # <<>>
    /\ workers = EmptyBag
    /\ threads >= 1

\* C30: each port is drawn by at most one worker and probed at most once, and
\* only ports of the range are; in a scan with concurrency >= 1 that was not
\* cancelled each port of the range has been probed exactly once at the
\* return.
C30_ProbedAtMostOnce ==
    /\ \A p \in BagToSet(drawn) : p \in Range /\ CopiesIn(p, drawn) = 1
    /\ \A w \in Workers : w.pc = "dial" => workers[w] = 1 /\ w.port \in BagToSet(drawn)
    /\ (Returned /\ ctxErr = "nil" /\ threads >= 1)
           => BagToSet(drawn) = Range /\ InFlight = 0

C30_Witness ==
    /\ Returned
    /\ ctxErr = "nil"
    /\ threads >= 2
    /\ BagCardinality(drawn) >= 2
    /\ probedOpen # {}
    /\ probedOpen # Range

\* C31: the engine never sorts: the list Scan returns is the collector's
\* list, which holds the ports in the order in which the workers pushed them;
\* with concurrency >= 2 and two open ports that order need not be ascending.
C31_ReturnedInPushOrder ==
    /\ [][(mainPc' = "returned" /\ mainPc # "returned")
             => retPorts' = openPorts]_vars
    /\ [][openPorts' # openPorts
             => (openPorts' = <<>>
                 \/ (results # <<>> /\ openPorts' = Append(openPorts, Head(results))
                     /\ results' = Tail(results)))]_vars
    /\ [][Len(results') > Len(results)
             => \E w \in Workers : w.pc = "send" /\ results' = Append(results, w.port)]_vars

C31_Witness ==
    /\ Returned
    /\ threads >= 2
    /\ Len(retPorts) >= 2
    /\ ~Increasing(retPorts)
    /\ retErr = "nil"

\* the ports of which the one worker holds a result it has not pushed yet
Unsent == {w.port : w \in {x \in Workers : x.pc = "send"}}

\* C32: ports are drawn, and so probed, in strictly increasing order; with
\* concurrency = 1 the collector's list followed by the results queue, and the
\* list Scan returns with or without an error, are in strictly ascending
\* order.
C32_OneWorkerAscending ==
    /\ [][Len(ports') < Len(ports)
             => \A p \in BagToSet(drawn) : p < Head(ports)]_vars
    /\ [](threads = 1
            => /\ Increasing(openPorts \o results)
               /\ \A p \in Unsent :
                     \A i \in 1..Len(openPorts \o results) :
                        (openPorts \o results)[i] < p
               /\ Returned => Increasing(retPorts))

C32_Witness ==
    /\ Returned
    /\ threads = 1
    /\ Len(retPorts) >= 2
    /\ retErr # "nil"

\* C33: with a concurrency limit of zero, no cancellation and a range longer
\* than the queue depth, the feeder fills the work queue, then stays at its
\* insertion and never closes the queue; with a range that fits in the queue
\* the feeder finishes and closes it.
C33_FeederBlocksWithoutWorkers ==
    /\ [](threads = 0 /\ ctxErr = "nil" /\ portCount > QueueDepth
            => /\ ~portsClosed
               /\ feeder.pc # "exit"
               /\ feeder.port <= startPort + QueueDepth
               /\ feeder.port <= endPort)
    /\ (threads = 0 /\ portCount > QueueDepth /\ [](ctxErr = "nil"))
           => <>[](feeder.pc = "feed" /\ Len(ports) = QueueDepth
                     /\ feeder.port = startPort + QueueDepth)
    /\ (threads = 0 /\ portCount <= QueueDepth /\ [](ctxErr = "nil"))
           => <>(portsClosed /\ feeder.port = endPort + 1
                   /\ Len(ports) = portCount)

C33_Witness ==
    /\ threads = 0
    /\ ctxErr = "nil"
    /\ portCount > QueueDepth
    /\ ~portsClosed
    /\ Len(ports) = QueueDepth
    /\ done

\* C34: each piece of a scan's state has one writer: the collector's list is
\* changed only by steps of the task that called Scan, the work queue is
\* filled and closed only by the feeder, the results queue is filled only by
\* workers and closed only by the barrier, the worker counter is raised only
\* by the spawning loop and lowered only by an exiting worker; a step of one
\* stage leaves the positions of the other stages alone.
C34_OneWriterPerState ==
    /\ [][(openPorts' # openPorts \/ retPorts' # retPorts \/ retErr' # retErr)
             => /\ mainPc \in {"collect", "final"}
                /\ UNCHANGED <<workers, feeder, barrier, ports, portsClosed,
                               resultsClosed, wg>>]_vars
    /\ [][(Len(ports') > Len(ports) \/ portsClosed' # portsClosed)
             => /\ feeder' # feeder
                /\ UNCHANGED <<workers, barrier, mainPc, results, resultsClosed,
                               openPorts, wg>>]_vars
    /\ [][Len(ports') < Len(ports)
             => /\ workers' # workers
                /\ UNCHANGED <<feeder, barrier, mainPc, results, openPorts>>]_vars
    /\ [][Len(results') > Len(results)
             => /\ workers' # workers
                /\ UNCHANGED <<feeder, barrier, mainPc, ports, portsClosed,
                               resultsClosed, openPorts, wg>>]_vars
    /\ [][Len(results') < Len(results)
             => /\ mainPc = "collect"
                /\ UNCHANGED <<workers, feeder, barrier>>]_vars
    /\ [][(resultsClosed' # resultsClosed \/ done' # done)
             => /\ barrier' # barrier
                /\ UNCHANGED <<workers, feeder, mainPc, ports, results,
                               openPorts, wg>>]_vars
    /\ [][wg' > wg => mainPc = "spawn" /\ spawned' = spawned + 1]_vars
    /\ [][wg' < wg
             => /\ BagCardinality(workers') = BagCardinality(workers) - 1
                /\ UNCHANGED <<feeder, barrier, mainPc, openPorts>>]_vars

C34_Witness ==
    /\ threads = 2
    /\ mainPc = "collect"
    /\ openPorts # <<>>
    /\ Unsent # {}
    /\ feeder.pc = "feed"
    /\ barrier = "wait"

\* ---- claims about repeated calls of Scan (AgainSpec)
\* a call of Scan after the first one is under way or has returned
SecondScan == retErr # "pending" /\ mainPc # "returned"

\* C35: no step of Scan changes the Scanner's range, thread limit or progress
\* switch, and the context is changed only by its owner's cancellation, never
\* by a step of Scan; a later Scan on the same Scanner starts with the same
\* configuration, with empty queues and no worker, and collects into an empty
\* list: what it gathers and returns are ports pushed during that call.
C35_ConfigUnchangedByScan ==
    /\ [][UNCHANGED config]_vars
    /\ [][ctxErr' # ctxErr
             => ctxErr = "nil" /\ UNCHANGED <<mainPc, workers, feeder, barrier,
                                              chans, openPorts>>]_vars
    /\ [][mainPc = "returned" /\ mainPc' # "returned"
             => /\ mainPc' = "start" /\ wg' = 0 /\ workers' = EmptyBag
                /\ ports' = <<>> /\ results' = <<>>
                /\ ~portsClosed' /\ ~resultsClosed' /\ ~done']_vars
    /\ [](mainPc \in {"collect", "final"}
             => SeqToSet(openPorts) \subseteq pushed /\ NoDup(openPorts))
    /\ [][mainPc = "final" /\ mainPc' = "returned"
             => SeqToSet(retPorts') \subseteq pushed /\ NoDup(retPorts')]_vars

C35_Witness ==
    /\ SecondScan
    /\ retErr = "nil" /\ retPorts # <<>>
    /\ mainPc = "final"
    /\ openPorts = retPorts
    /\ drawn # EmptyBag

\* ---- claims about one call of a helper (CallSpec)
IsPortOpenCalled == call.fn = "isPortOpen"
GrabBannerCalled == call.fn = "grabBanner"

\* C13: isPortOpen returns (false, nil) for every dial failure that is a
\* timeout or an ordinary connection failure, returns (true, nil) exactly
\* when the dial succeeds, and never returns true with a non-nil error.
C13_IsPortOpenOutcome ==
    IsPortOpenCalled =>
        /\ (Timeout(call.dial) \/ call.dial = "refused")
               => call.res = [open |-> FALSE, err |-> "nil"]
        /\ call.res = [open |-> TRUE, err |-> "nil"] <=> call.dial = "nil"
        /\ ~(call.res.open /\ call.res.err # "nil")

C13_Witness ==
    /\ IsPortOpenCalled
    /\ call.dial = "refused"
    /\ call.res = [open |-> FALSE, err |-> "nil"]

\* C14: for every dial failure that originates from the cancellation signal,
\* an explicit cancel or the expiry of a deadline on the context, isPortOpen
\* returns (false, non-nil error).
C14_CancellationAlwaysReported ==
    (IsPortOpenCalled /\ (IsCanceled(call.dial) \/ IsDeadlineExceeded(call.dial)))
        => ~call.res.open /\ call.res.err # "nil"

\* C18: for every response of 1..BufSize bytes read in one read, the banner
\* grabBanner returns has at most BannerLimit + 3 characters and contains no
\* line feed.
C18_BannerBounded ==
    GrabBannerCalled =>
        /\ Len(call.res.banner) <= BannerLimit + Len(Ellipsis)
        /\ \A i \in 1..Len(call.res.banner) : call.res.banner[i] # "LF"

C18_Witness ==
    /\ GrabBannerCalled
    /\ Len(call.raw) = BufSize
    /\ \E i \in 1..Len(call.raw) : call.raw[i] = "LF"
    /\ Len(call.res.banner) = BannerLimit + Len(Ellipsis)

\* The reference clean-up: one pass that turns every CR-LF pair into a space,
\* then every line feed left into a space, then the first BannerLimit
\* characters and "..." if and only if the result is longer than BannerLimit.
RECURSIVE PairsToSpace(_)
PairsToSpace(str) ==
    IF str = <<>> THEN <<>>
    ELSE IF Len(str) >= 2 /\ str[1] = "CR" /\ str[2] = "LF"
         THEN <<"SP">> \o PairsToSpace(SubSeq(str, 3, Len(str)))
         ELSE <<str[1]>> \o PairsToSpace(Tail(str))

LineFeedsToSpace(str) ==
    [i \in 1..Len(str) |-> IF str[i] = "LF" THEN "SP" ELSE str[i]]

Reference(raw) ==
    LET flat == LineFeedsToSpace(PairsToSpace(raw))
    IN IF Len(flat) <= BannerLimit THEN flat
       ELSE [i \in 1..BannerLimit |-> flat[i]] \o <<".", ".", ".">>

\* C19: the banner of a successful grabBanner call equals the reference
\* clean-up of the bytes read; a result of BannerLimit characters or fewer
\* is returned without an ellipsis.
C19_BannerEqualsReference ==
    (GrabBannerCalled /\ call.res.err = "nil")
        => call.res.banner = Reference(call.raw)

\* the scenario "SSH-2.0-OpenSSH_8.9\r\n": text, then CR-LF, no truncation
C19_Witness ==
    /\ GrabBannerCalled
    /\ call.raw = <<"a", "CR", "LF">>
    /\ call.res.banner = <<"a", "SP">>

\* the step of this call that fails, "none" if it gets through
FailedStep ==
    IF call.fail = "write" /\ call.port \notin RequestPorts
    THEN "none" ELSE call.fail

\* C20: when a step of grabBanner fails (connect, the deadline, the write of
\* the request, the read) it returns the empty banner with that error; a
\* non-empty banner comes with a nil error only; the connection, once
\* established, is closed on every return path.
C20_FailureGivesEmptyBanner ==
    GrabBannerCalled =>
        /\ FailedStep # "none"
               => call.res.banner = <<>> /\ call.res.err = FailedStep
        /\ call.res.banner # <<>> => call.res.err = "nil"
        /\ call.res.conn = IF FailedStep = "dial" THEN "none" ELSE "closed"

C20_Witness ==
    /\ GrabBannerCalled
    /\ call.fail = "read"
    /\ call.res.banner = <<>>
    /\ call.res.err = "read"
    /\ call.res.conn = "closed"

IsHostAliveCalled == call.fn = "isHostAlive"

\* C22: isHostAlive probes 80, 443, 22, 3389 in that order, returns true at
\* the first probe that reports open without probing a later port, and returns
\* false if and only if none of the four probes reports open; a probe that
\* returns an error counts as not open.
C22_HostAliveFirstOpenPort ==
    IsHostAliveCalled =>
        LET probed == call.res.probed
            n == Len(probed)
        IN /\ n \in 1..4
           /\ probed = SubSeq(<<80, 443, 22, 3389>>, 1, n)
           /\ \A i \in 1..(n - 1) : call.dials[probed[i]] # "nil"
           /\ call.res.alive <=> call.dials[probed[n]] = "nil"
           /\ ~call.res.alive
                  <=> (n = 4 /\ \A p \in {80, 443, 22, 3389} : call.dials[p] # "nil")

C22_Witness ==
    /\ IsHostAliveCalled
    /\ call.res.alive
    /\ call.res.probed = <<80, 443>>
    /\ call.dials[80] = "canceled"
    /\ call.dials[22] = "nil"

\* C36: in every call of grabBanner that has its connection and the
\* connection's deadline set, a request is written (or its write is tried and
\* fails) if and only if the port is 80 or 8080, and a written request is
\* followed by the read; for every other port nothing is written and there
\* is exactly one read, of at most BufSize bytes.  A call that fails before
\* that point neither writes nor reads.
C36_RequestOnlyOnWebPorts ==
    GrabBannerCalled =>
        IF call.res.err \in {"dial", "deadline"}
        THEN ~call.res.wrote /\ call.res.reads = 0
        ELSE /\ (call.res.wrote \/ call.res.err = "write") <=> call.port \in {80, 8080}
             /\ call.res.wrote => call.res.reads = 1
             /\ call.port \notin {80, 8080}
                    => /\ ~call.res.wrote
                       /\ call.res.reads = 1
                       /\ Len(call.raw) <= BufSize

C36_Witness ==
    /\ GrabBannerCalled
    /\ call.port = 443
    /\ call.res.err = "nil"
    /\ ~call.res.wrote
    /\ call.res.reads = 1
    /\ Len(call.raw) = BufSize

\* ---- claims about the web server (WebSpec, WebFairSpec)
\* the requests whose handler has set scanInProgress and not yet handed it on
\* or set it back
Claimants == {h \in Handlers : handlers[h].pc \in {"parse", "relock", "reset"}}

\* C37: at most one scan goroutine exists at any time and scanInProgress is
\* true while it does; at most one request at a time is past the check.  A
\* POST /scan that finds scanInProgress set when it checks is answered 409,
\* which leaves the flag, the scan goroutines and the stored results as they
\* are, and no scan is ever started for it.
C37_OneScanAtATime ==
    /\ [](Cardinality(tasks) + Cardinality(Claimants) <= 1)
    /\ [](tasks # {} \/ Claimants # {} => scanInProgress)
    /\ [][\A h \in Handlers :
             (handlers[h].pc = "check" /\ scanInProgress /\ handlers'[h] # handlers[h])
                 => /\ handlers'[h].pc = "done" /\ handlers'[h].status = 409
                    /\ UNCHANGED <<scanInProgress, tasks, scanResults>>]_vars
    /\ [](\A h \in Handlers :
             handlers[h].status = 409
                 => /\ \A t \in tasks : t.id # h
                    /\ \A i \in 1..Len(scanResults) : scanResults[i].scan # h)

C37_Witness ==
    \E h \in Handlers, t \in tasks :
        /\ handlers[h].status = 409
        /\ t.pc = "scan"
        /\ handlers[t.id].status = 202
        /\ scanInProgress

\* C38: whenever scanInProgress is true it becomes false again.  While it is
\* true exactly one request holds it: its handler, which on a form that does
\* not parse or has no host sets it back and answers 400, or the scan
\* goroutine started for it, which sets it back as its last step, whether
\* the scan came back with or without an error.  A POST /scan that finds it
\* false is accepted.
C38_FlagIsReset ==
    /\ scanInProgress ~> ~scanInProgress
    /\ [](scanInProgress <=> Cardinality(tasks) + Cardinality(Claimants) = 1)
    /\ \A h \in Handlers :
          (handlers[h].pc = "parse" /\ handlers[h].form # "ok")
              ~> (handlers[h].pc = "done" /\ handlers[h].status = 400)
    /\ [][\A h \in Handlers :
             (handlers[h].pc # "done" /\ handlers'[h].pc = "done"
                  /\ handlers'[h].status = 400)
                 => scanInProgress /\ ~scanInProgress']_vars
    /\ [][tasks' \subseteq tasks /\ tasks' # tasks
             => scanInProgress /\ ~scanInProgress']_vars
    /\ [][\A h \in Handlers :
             (handlers[h].pc = "check" /\ ~scanInProgress /\ handlers'[h] # handlers[h])
                 => handlers'[h].pc = "parse" /\ scanInProgress']_vars

C38_Witness ==
    \E h \in Handlers, t \in tasks :
        /\ handlers[h].status = 400
        /\ handlers[t.id].status = 202
        /\ scanResults = <<>>

\* C39: a handler renders the page only while it is among the readers of
\* resultsMutex and the history changes only in a step of the goroutine that
\* holds the write lock, with no reader inside; a reader is let in whenever
\* no writer holds or awaits the lock, however many readers are inside.  The
\* scan goroutine of every accepted request gets to its write, and the write
\* puts one record, that of the request, in front of the history; no request
\* has two records.  The write of POST /clear leaves the history empty.
C39_HistoryUnderLock ==
    /\ [](\A h \in Handlers :
             handlers[h].pc = "render" => h \in resultsMutex.readers)
    /\ [](resultsMutex.writer # Free => resultsMutex.readers = {})
    /\ [](\A h \in Handlers :
             (handlers[h].path = "/" /\ handlers[h].pc = "handle" /\ RLockReady)
                 => ENABLED RenderRLock(h))
    /\ [][scanResults' # scanResults
             => /\ resultsMutex.writer # Free
                /\ resultsMutex.readers = {}
                /\ resultsMutex'.writer = Free
                /\ \/ \E t \in tasks : /\ resultsMutex.writer = Task(t.id)
                                       /\ t.pc = "append"
                                       /\ [t EXCEPT !.pc = "finish"] \in tasks'
                                       /\ scanResults' = <<[scan |-> t.id, ports |-> t.ports]>>
                                                            \o scanResults
                   \/ \E h \in Handlers : /\ resultsMutex.writer = Handler(h)
                                          /\ handlers[h].path = "/clear"
                                          /\ scanResults' = <<>>]_vars
    /\ [][\A h \in Handlers :
             (handlers[h].pc = "clear" /\ handlers'[h].pc = "done")
                 => scanResults' = <<>>]_vars
    /\ [](\A i, j \in 1..Len(scanResults) :
             scanResults[i].scan = scanResults[j].scan => i = j)
    /\ \A n \in Handlers :
          (\E t \in tasks : t.id = n /\ t.pc = "scan")
              ~> (\E t \in tasks : t.id = n /\ t.pc = "finish")

C39_Witness ==
    \E t \in tasks :
        /\ t.pc = "pending"
        /\ t.ports # <<>>
        /\ resultsMutex.pending = Task(t.id)
        /\ resultsMutex.readers # {}

\* ---- claims about the range command (RangeSpec)
\* the last element of a non-empty sequence
Last(q) == q[Len(q)]

\* the claim as it is worded: once the context is cancelled no host is
\* liveness-checked or scanned any more
C40_NothingAfterCancel ==
    [][rangeCtx # "nil" => checked' = checked /\ scanned' = scanned]_vars

\* C40: Scan is called for a host only straight after isHostAlive returned
\* true for it, the hosts are liveness-checked and scanned one at a time in
\* address order, and once the context is cancelled no iteration passes the
\* check at the top of the loop: only the host whose iteration had passed it
\* before is still liveness-checked, and scanned if isHostAlive still
\* answers true.
C40_LivenessIsPreFilter ==
    /\ [][scanned' # scanned
             => /\ rangePc = "up"
                /\ scanned' = Append(scanned, hostIdx)
                /\ checked # <<>> /\ Last(checked) = hostIdx]_vars
    /\ [][rangePc # "up" /\ rangePc' = "up"
             => /\ rangePc \in {"dialLive", "dialDead"}
                /\ Last(checked) = hostIdx
                /\ UNCHANGED <<hostIdx, checked, scanned>>]_vars
    /\ [](Increasing(checked) /\ Increasing(scanned)
             /\ SeqToSet(scanned) \subseteq SeqToSet(checked)
             /\ SeqToSet(checked) \subseteq Hosts)
    /\ [](rangePc \in {"alive", "dialLive", "dialDead", "up", "scan"}
             => checked # <<>> /\ Last(checked) = hostIdx)
    /\ [][(rangeCtx # "nil" /\ rangePc = "select" /\ rangePc' # "select")
             => rangePc' = "done"]_vars
    /\ [][(rangeCtx # "nil" /\ checked' # checked) => rangePc = "call"]_vars
    /\ [](rangePc = "dialDead" => rangeCtx # "nil")
    /\ [][(rangePc = "dialDead" /\ rangePc' # "dialDead") => rangePc' # "up"]_vars

C40_Witness ==
    /\ rangeCtx # "nil"
    /\ rangePc = "dialDead" /\ aliveIdx = 1
    /\ checked = <<1, 2>>
    /\ scanned = <<1>>

====
